---- MODULE Spec2Model ----
(***************************************************************************)
(* The cart-to-order checkout workflow of the storefront.                  *)
(*                                                                         *)
(* Client side (translated from the sources):                              *)
(*   - useCartStore          frontend/src/utils/helpers.ts 121-192         *)
(*   - CheckoutPage.onSubmit frontend/src/pages/ProductDetailPage.tsx      *)
(*                           307-371, with the render guards 292-305,      *)
(*                           373-386 and the buttons 489-507               *)
(*   - apiClient             unnamed/part_003 8-50 (timeout, interceptor)  *)
(* Server side (cart, payment and order services): their code is not part  *)
(* of the sources, only the clients that call them are (CartService,       *)
(* OrderService); the services are modelled from the design document.      *)
(*                                                                         *)
(* Every await of onSubmit is a point where other clients run, so onSubmit *)
(* is one action per segment between two awaits; pc[t] is the await the    *)
(* submission of page t is suspended at.                                   *)
(***************************************************************************)
EXTENDS Integers, Sequences, FiniteSets, TLC

\* ---- bounds of the model ----
MaxQty == 2         \* largest quantity of one cart line
MaxStock == 1       \* largest stock count of the catalog
MaxIntents == 2     \* payment submissions explored
MaxClears == 1      \* clearings of the cart by the user explored
MaxShownStock == 3  \* largest stock count a product page shows

NULL == [null |-> TRUE]       \* JavaScript null
Tabs == {"t1", "t2"}          \* browser tabs of the one user, each with its own stores
Products == {"P1"}
UserId == "u1"
CartId == "c1"
User == [id |-> UserId]       \* the stored User of the signed-in user

VARIABLES
    catalog,      \* Catalog Lookup: product id -> [price, stock, is_active]
    serverCart,   \* the cart service's cart of the user: [items, epoch]
    intents,      \* payment service: sequence of payment intents, id = index
    orders,       \* order service: sequence of recorded orders
    cart,         \* useCartStore.cart of each tab: a Cart or NULL
    user,         \* useAuthStore.user of each tab: User or NULL
    step,         \* CheckoutPage.step of each tab
    processing,   \* CheckoutPage.processing of each tab
    pc,           \* the await onSubmit is suspended at, or "idle"
    snap,         \* the `cart` captured by the running onSubmit closure
    intent,       \* the `intent.id` local of the running onSubmit (0: none)
    calls,        \* service calls issued by the running pay submission, in order
    toast,        \* the toasts the last step of the tab's checkout raised
    console,      \* the error the last step of the tab logged (console.error)
    isLoading,    \* useCartStore.isLoading of each tab
    inflight,     \* cart store actions awaiting their cart endpoint
    thrown,       \* what the last cart store action of the tab threw ("none")
    prepared,     \* the CheckoutResponse the tab got from prepareCheckout last
    isAuthenticated,  \* useAuthStore.isAuthenticated of each tab
    session,      \* the keys present in the tab's sessionStorage
    authCalls,    \* auth store actions awaiting the auth endpoint
    authLoading,  \* useAuthStore.isLoading of each tab
    product,      \* ProductDetailPage.product of each tab: a Product or NULL
    quantity      \* ProductDetailPage.quantity of each tab

\* The state of the checkout pages and of the services.
shopVars == <<catalog, serverCart, intents, orders, cart, user, step,
              processing, pc, snap, intent, calls, toast, console>>

\* The state the checkout steps do not touch.
rest == <<isLoading, inflight, thrown, prepared, isAuthenticated, session,
          authCalls, authLoading, product, quantity>>

vars == <<catalog, serverCart, intents, orders, cart, user, step, processing,
          pc, snap, intent, calls, toast, console, isLoading, inflight,
          thrown, prepared, isAuthenticated, session, authCalls, authLoading,
          product, quantity>>

\* ---- pure helpers ----

\* CartItem: total_price is derived = quantity * price (snapshot)
Line(p, q, pr) ==
    [product_id |-> p, quantity |-> q, price |-> pr, total_price |-> q * pr]

RECURSIVE SumTotals(_)
SumTotals(items) ==
    IF items = <<>> THEN 0
    ELSE Head(items).quantity * Head(items).price + SumTotals(Tail(items))

RECURSIVE SumQty(_)
SumQty(items) ==
    IF items = <<>> THEN 0 ELSE Head(items).quantity + SumQty(Tail(items))

\* The Cart a cart endpoint returns for the server cart sc.  epoch is not a
\* field of Cart: it counts how often the cart has been cleared and so names
\* the purchase the contents belong to; only the properties read it.
CartResponse(sc) ==
    [id |-> CartId, user_id |-> UserId, items |-> sc.items,
     total_items |-> SumQty(sc.items), subtotal |-> SumTotals(sc.items),
     epoch |-> sc.epoch]

IndexOf(items, p) ==
    IF \E i \in 1..Len(items) : items[i].product_id = p
    THEN CHOOSE i \in 1..Len(items) : items[i].product_id = p
    ELSE 0

\* ---- what the steps of a tab show ----

\* No error was logged.
NoError == [call |-> "none", error |-> "none"]

\* A request that got no usable answer: the 15 s timeout of apiClient, a 429
\* or a 5xx response.
TransportErrors == {"Timeout", "RateLimited", "ServerError"}

\* The response interceptor of apiClient raises a toast of its own for 429
\* and for 5xx, and rejects in every case.
ApiToasts(error) ==
    IF error = "RateLimited" THEN <<"Too many requests. Please slow down.">>
    ELSE IF error = "ServerError" THEN <<"Server error. Please try again later.">>
    ELSE <<>>

ToastFailed == "Payment failed. Please try again."
ToastSuccess == "Order placed successfully!"

\* The step of tab t raises no checkout toast and logs nothing.
Quiet(t) ==
    /\ toast' = [toast EXCEPT ![t] = <<>>]
    /\ console' = [console EXCEPT ![t] = NoError]

\* ---- cart service (design document 4.1) ----

\* addItem that takes the catalog's current price for the merged line.
AddItemSrv_RefreshesPrice(sc, p, q) ==
    LET i == IndexOf(sc.items, p) IN
    [items |-> IF i = 0
               THEN Append(sc.items, Line(p, q, catalog[p].price))
               ELSE [sc.items EXCEPT ![i] =
                        Line(p, sc.items[i].quantity + q, catalog[p].price)],
     epoch |-> sc.epoch]

\* addItem that always starts a new line.
AddItemSrv_AlwaysAppend(sc, p, q) ==
    [items |-> Append(sc.items, Line(p, q, catalog[p].price)),
     epoch |-> sc.epoch]

AddItemSrv(sc, p, q) ==
    LET i == IndexOf(sc.items, p) IN
    [items |-> IF i = 0
               THEN Append(sc.items, Line(p, q, catalog[p].price))
               ELSE [sc.items EXCEPT ![i] =
                        Line(p, sc.items[i].quantity + q, sc.items[i].price)],
     epoch |-> sc.epoch]

AddItemAccepted(p, q) == q >= 1 /\ catalog[p].is_active

RemoveItemSrv(sc, p) ==
    IF IndexOf(sc.items, p) = 0 THEN sc
    ELSE [items |-> SelectSeq(sc.items, LAMBDA l : l.product_id # p),
          epoch |-> sc.epoch]

\* updateItem that writes quantity 0 into the line instead of removing it.
UpdateItemSrv_ZeroStays(sc, p, q) ==
    LET i == IndexOf(sc.items, p) IN
    IF i = 0 THEN sc
    ELSE [items |-> [sc.items EXCEPT ![i] = Line(p, q, sc.items[i].price)],
          epoch |-> sc.epoch]

\* updateItem that writes the quantity and leaves the line total as it was.
UpdateItemSrv_StaleTotal(sc, p, q) ==
    LET i == IndexOf(sc.items, p) IN
    IF q = 0 THEN RemoveItemSrv(sc, p)
    ELSE [items |-> [sc.items EXCEPT ![i].quantity = q],
          epoch |-> sc.epoch]

UpdateItemSrv(sc, p, q) ==
    LET i == IndexOf(sc.items, p) IN
    IF q = 0 THEN RemoveItemSrv(sc, p)
    ELSE [items |-> [sc.items EXCEPT ![i] = Line(p, q, sc.items[i].price)],
          epoch |-> sc.epoch]

UpdateItemAccepted(sc, p, q) ==
    q = 0 \/ (IndexOf(sc.items, p) # 0 /\ q <= catalog[p].stock)

ClearCartSrv(sc) == [items |-> <<>>, epoch |-> sc.epoch + 1]

\* syncPrices: every snapshot is rewritten with the catalog's current price
SyncPricesSrv(sc) ==
    [items |-> [i \in 1..Len(sc.items) |->
                  Line(sc.items[i].product_id, sc.items[i].quantity,
                       catalog[sc.items[i].product_id].price)],
     epoch |-> sc.epoch]

\* The user opens the shop with one line (P1 x 1 at $10) in the cart the cart
\* service keeps for them; the stores of every tab are as constructed
\* (helpers.ts 122-123, auth.store.ts 19-21, ProductDetailPage.tsx 259-260).
InitState ==
    /\ catalog = [p \in Products |->
                    [price |-> 10, stock |-> MaxStock, is_active |-> TRUE]]
    /\ serverCart = [items |-> <<Line("P1", 1, 10)>>, epoch |-> 0]
    /\ intents = <<>>
    /\ orders = <<>>
    /\ cart = [t \in Tabs |-> NULL]
    /\ step = [t \in Tabs |-> "shipping"]
    /\ processing = [t \in Tabs |-> FALSE]
    /\ pc = [t \in Tabs |-> "idle"]
    /\ snap = [t \in Tabs |-> NULL]
    /\ intent = [t \in Tabs |-> 0]
    /\ calls = [t \in Tabs |-> <<>>]
    /\ toast = [t \in Tabs |-> <<>>]
    /\ console = [t \in Tabs |-> NoError]

\* The stores and the product page as constructed in a signed-in tab:
\* sessionStorage holds the tokens, and the user unless it is missing.
InitRest ==
    /\ isLoading = [t \in Tabs |-> FALSE]
    /\ inflight = {}
    /\ thrown = [t \in Tabs |-> "none"]
    /\ prepared = [t \in Tabs |-> NULL]
    /\ isAuthenticated = [t \in Tabs |-> TRUE]
    /\ session = [t \in Tabs |->
                    IF user[t] = NULL THEN {"access_token", "refresh_token"}
                    ELSE {"access_token", "refresh_token", "user"}]
    /\ authCalls = [t \in Tabs |-> {}]
    /\ authLoading = [t \in Tabs |-> FALSE]
    /\ product = [t \in Tabs |-> NULL]
    /\ quantity = [t \in Tabs |-> 1]

\* The tab is signed in; its stored user is there, or missing (getStoredUser
\* returns null while isAuthenticated() is true, auth.store.ts 19-20).
Init ==
    /\ InitState
    /\ user \in {[t \in Tabs |-> User],
                 [t \in Tabs |-> IF t = "t1" THEN NULL ELSE User]}
    /\ InitRest


\* ---- useCartStore (helpers.ts 121-192) ----
\* Each store action awaits one cart endpoint and then sets `cart`; the
\* request, its effect on the server and the set() are one step here.

\* set({ cart })
StoreSet(t, c) == cart' = [cart EXCEPT ![t] = c]

FetchCart(t) ==
    /\ Quiet(t)
    /\ \E ok \in BOOLEAN :
          IF ok THEN StoreSet(t, CartResponse(serverCart)) ELSE UNCHANGED cart
    /\ UNCHANGED <<catalog, serverCart, intents, orders, user, step,
                   processing, pc, snap, intent, calls>>
    /\ UNCHANGED rest

AddToCart(t, p, q) ==
    /\ Quiet(t)
    /\ IndexOf(serverCart.items, p) # 0 =>
          serverCart.items[IndexOf(serverCart.items, p)].quantity + q <= MaxQty
    /\ \E ok \in BOOLEAN :
          IF ok /\ AddItemAccepted(p, q)
          THEN /\ serverCart' = AddItemSrv(serverCart, p, q)
               /\ StoreSet(t, CartResponse(serverCart'))
          ELSE UNCHANGED <<serverCart, cart>>
    /\ UNCHANGED <<catalog, intents, orders, user, step, processing, pc,
                   snap, intent, calls>>
    /\ UNCHANGED rest

UpdateQuantity(t, p, q) ==
    /\ Quiet(t)
    /\ \E ok \in BOOLEAN :
          IF ok /\ UpdateItemAccepted(serverCart, p, q)
          THEN /\ serverCart' = UpdateItemSrv(serverCart, p, q)
               /\ StoreSet(t, CartResponse(serverCart'))
          ELSE UNCHANGED <<serverCart, cart>>
    /\ UNCHANGED <<catalog, intents, orders, user, step, processing, pc,
                   snap, intent, calls>>
    /\ UNCHANGED rest

RemoveFromCart(t, p) ==
    /\ Quiet(t)
    /\ \E ok \in BOOLEAN :
          IF ok
          THEN /\ serverCart' = RemoveItemSrv(serverCart, p)
               /\ StoreSet(t, CartResponse(serverCart'))
          ELSE UNCHANGED <<serverCart, cart>>
    /\ UNCHANGED <<catalog, intents, orders, user, step, processing, pc,
                   snap, intent, calls>>
    /\ UNCHANGED rest

\* clearCart called by the user (not by the checkout), helpers.ts 171-180
ClearCart(t) ==
    /\ Quiet(t)
    /\ pc[t] = "idle"
    /\ serverCart.epoch < MaxClears
    /\ \E ok \in BOOLEAN :
          IF ok
          THEN /\ serverCart' = ClearCartSrv(serverCart)
               /\ StoreSet(t, NULL)
          ELSE UNCHANGED <<serverCart, cart>>
    /\ UNCHANGED <<catalog, intents, orders, user, step, processing, pc,
                   snap, intent, calls>>
    /\ UNCHANGED rest

\* syncPrices, helpers.ts 182-191
SyncPrices(t) ==
    /\ Quiet(t)
    /\ \E ok \in BOOLEAN :
          IF ok
          THEN /\ serverCart' = SyncPricesSrv(serverCart)
               /\ StoreSet(t, CartResponse(serverCart'))
          ELSE UNCHANGED <<serverCart, cart>>
    /\ UNCHANGED <<catalog, intents, orders, user, step, processing, pc,
                   snap, intent, calls>>
    /\ UNCHANGED rest

\* The price of a product changes in the catalog.
PriceChange(p, pr) ==
    /\ pr # catalog[p].price
    /\ catalog' = [catalog EXCEPT ![p].price = pr]
    /\ UNCHANGED <<serverCart, intents, orders, cart, user, step, processing,
                   pc, snap, intent, calls, toast, console>>
    /\ UNCHANGED rest

\* The stock of a product changes in the catalog (other buyers, restocking).
StockChange(p, s) ==
    /\ s # catalog[p].stock
    /\ catalog' = [catalog EXCEPT ![p].stock = s]
    /\ UNCHANGED <<serverCart, intents, orders, cart, user, step, processing,
                   pc, snap, intent, calls, toast, console>>
    /\ UNCHANGED rest

\* A product is taken off sale or put back on sale in the catalog.
ActiveChange(p, a) ==
    /\ a # catalog[p].is_active
    /\ catalog' = [catalog EXCEPT ![p].is_active = a]
    /\ UNCHANGED <<serverCart, intents, orders, cart, user, step, processing,
                   pc, snap, intent, calls, toast, console>>
    /\ UNCHANGED rest

\* ---- CheckoutPage (ProductDetailPage.tsx 249-554) ----

\* The guard without the test of the number of items.
FormRendered_NoLengthCheck(t) ==
    /\ cart[t] # NULL
    /\ step[t] # "success"

\* The form is rendered unless the cart is empty (292-305) or the success
\* view is shown (373-386).
FormRendered(t) ==
    /\ cart[t] # NULL
    /\ Len(cart[t].items) > 0
    /\ step[t] # "success"

\* Button: disabled={disabled || isLoading}, with isLoading={processing}
SubmitEnabled(t) == FormRendered(t) /\ ~processing[t]

\* Number(cart?.subtotal) || 0
SubtotalOf(c) == IF c = NULL THEN 0 ELSE c.subtotal

\* onSubmit, 308-311
SubmitShipping(t) ==
    /\ Quiet(t)
    /\ SubmitEnabled(t)
    /\ step[t] = "shipping"
    /\ step' = [step EXCEPT ![t] = "payment"]
    /\ UNCHANGED <<catalog, serverCart, intents, orders, cart, user,
                   processing, pc, snap, intent, calls>>
    /\ UNCHANGED rest

\* Back button, 490-498
Back(t) ==
    /\ Quiet(t)
    /\ FormRendered(t)
    /\ step[t] = "payment"
    /\ ~processing[t]
    /\ step' = [step EXCEPT ![t] = "shipping"]
    /\ UNCHANGED <<catalog, serverCart, intents, orders, cart, user,
                   processing, pc, snap, intent, calls>>
    /\ UNCHANGED rest

\* The page is left and opened again: a new CheckoutPage instance.
Remount(t) ==
    /\ Quiet(t)
    /\ pc[t] = "idle"
    /\ step[t] # "shipping"
    /\ step' = [step EXCEPT ![t] = "shipping"]
    /\ UNCHANGED <<catalog, serverCart, intents, orders, cart, user,
                   processing, pc, snap, intent, calls>>
    /\ UNCHANGED rest

\* onSubmit, 313-328: up to the await of createPaymentIntent
SubmitPay(t) ==
    /\ Quiet(t)
    /\ SubmitEnabled(t)
    /\ step[t] = "payment"
    /\ pc[t] = "idle"
    /\ Len(intents) < MaxIntents
    /\ processing' = [processing EXCEPT ![t] = TRUE]
    /\ snap' = [snap EXCEPT ![t] = cart[t]]
    /\ pc' = [pc EXCEPT ![t] = "createPaymentIntent"]
    /\ calls' = [calls EXCEPT ![t] = <<"createPaymentIntent">>]
    /\ UNCHANGED <<catalog, serverCart, intents, orders, cart, user, step,
                   intent>>
    /\ UNCHANGED rest

\* Catch without the finally block: processing stays set.
Catch_NoFinally(t, error, shown) ==
    /\ console' = [console EXCEPT ![t] = [call |-> pc[t], error |-> error]]
    /\ toast' = [toast EXCEPT ![t] = Append(shown, ToastFailed)]
    /\ calls' = [calls EXCEPT ![t] = <<>>]
    /\ processing' = processing
    /\ pc' = [pc EXCEPT ![t] = "idle"]
    /\ snap' = [snap EXCEPT ![t] = NULL]
    /\ intent' = [intent EXCEPT ![t] = 0]

\* onSubmit, 365-370: catch and finally, after the awaited call of pc[t]
\* threw `error` and the toasts `shown` were raised on its way up.
Catch(t, error, shown) ==
    /\ console' = [console EXCEPT ![t] = [call |-> pc[t], error |-> error]]
    /\ toast' = [toast EXCEPT ![t] = Append(shown, ToastFailed)]
    /\ calls' = [calls EXCEPT ![t] = <<>>]
    /\ processing' = [processing EXCEPT ![t] = FALSE]
    /\ pc' = [pc EXCEPT ![t] = "idle"]
    /\ snap' = [snap EXCEPT ![t] = NULL]
    /\ intent' = [intent EXCEPT ![t] = 0]

\* The request of createPaymentIntent, 319-328
IntentRequest(t) ==
    [amount |-> SubtotalOf(snap[t]), cart_id |-> snap[t].id]

\* Payment Coordinator createIntent (design document 4.3): AmountMismatch
\* unless the amount is the subtotal re-derived from the server cart.
CreateIntentAccepted(req) == req.amount = SumTotals(serverCart.items)

\* cart_epoch is not a field of the service: it records which purchase
\* the intent was requested for.
NewIntent(req, v) ==
    [id |-> Len(intents) + 1, cart_id |-> req.cart_id, amount |-> req.amount,
     status |-> "created", cart_epoch |-> v]

\* createPaymentIntent returns, 319-334: confirmPayment is requested next
CreateIntentReturn(t) ==
    /\ pc[t] = "createPaymentIntent"
    /\ \E r \in {"ok"} \cup TransportErrors :
          IF r = "ok" /\ CreateIntentAccepted(IntentRequest(t))
          THEN /\ intents' = Append(intents,
                                NewIntent(IntentRequest(t), snap[t].epoch))
               /\ intent' = [intent EXCEPT ![t] = Len(intents) + 1]
               /\ pc' = [pc EXCEPT ![t] = "confirmPayment"]
               /\ calls' = [calls EXCEPT ![t] = Append(@, "confirmPayment")]
               /\ Quiet(t)
               /\ UNCHANGED <<processing, snap>>
          ELSE /\ Catch(t, IF r = "ok" THEN "AmountMismatch" ELSE r,
                        ApiToasts(r))
               /\ UNCHANGED intents
    /\ UNCHANGED <<catalog, serverCart, orders, cart, user, step>>
    /\ UNCHANGED rest

\* if (user && cart), 337
PlacesOrder(t) == user[t] # NULL /\ snap[t] # NULL

\* onSubmit going on to place the order whatever confirmPayment answered.
ConfirmReturn_IgnoresOutcome(t, outcome) ==
    /\ pc[t] = "confirmPayment"
    /\ intents' = [intents EXCEPT ![intent[t]].status = outcome]
    /\ IF PlacesOrder(t)
       THEN /\ pc' = [pc EXCEPT ![t] = "createOrder"]
            /\ calls' = [calls EXCEPT ![t] = Append(@, "createOrder")]
       ELSE /\ pc' = [pc EXCEPT ![t] = "clearCart"]
            /\ calls' = [calls EXCEPT ![t] = Append(@, "clearCart")]
    /\ Quiet(t)
    /\ UNCHANGED <<processing, snap, intent>>
    /\ UNCHANGED <<catalog, serverCart, orders, cart, user, step>>
    /\ UNCHANGED rest

\* confirmPayment returns, 331-361
ConfirmReturn(t, outcome) ==
    /\ pc[t] = "confirmPayment"
    /\ intents' = [intents EXCEPT ![intent[t]].status = outcome]
    /\ IF outcome = "confirmed"
       THEN /\ IF PlacesOrder(t)
               THEN /\ pc' = [pc EXCEPT ![t] = "createOrder"]
                    /\ calls' = [calls EXCEPT ![t] = Append(@, "createOrder")]
               ELSE /\ pc' = [pc EXCEPT ![t] = "clearCart"]
                    /\ calls' = [calls EXCEPT ![t] = Append(@, "clearCart")]
            /\ Quiet(t)
            /\ UNCHANGED <<processing, snap, intent>>
       ELSE \E e \in IF outcome = "declined" THEN {"PaymentDeclined"}
                                              ELSE TransportErrors :
               Catch(t, e, ApiToasts(e))
    /\ UNCHANGED <<catalog, serverCart, orders, cart, user, step>>
    /\ UNCHANGED rest

\* createOrder with the total read from the store's current cart instead
\* of the subtotal that was charged.
OrderRequest_StoreTotal(t) ==
    [user_id |-> user[t].id,
     items |-> [i \in 1..Len(snap[t].items) |->
                  [product_id |-> snap[t].items[i].product_id,
                   quantity |-> snap[t].items[i].quantity,
                   price |-> snap[t].items[i].price]],
     total_amount |-> SubtotalOf(cart[t]),
     payment_intent_id |-> intent[t]]

\* The request of createOrder, 338-357
OrderRequest(t) ==
    [user_id |-> user[t].id,
     items |-> [i \in 1..Len(snap[t].items) |->
                  [product_id |-> snap[t].items[i].product_id,
                   quantity |-> snap[t].items[i].quantity,
                   price |-> snap[t].items[i].price]],
     total_amount |-> SubtotalOf(snap[t]),
     payment_intent_id |-> intent[t]]

\* Order Recorder createOrder (design document 6): idempotent on
\* (userId, paymentIntentId).  cart_epoch as for NewIntent.
RecordOrder(req, v) ==
    IF \E i \in 1..Len(orders) :
          /\ orders[i].user_id = req.user_id
          /\ orders[i].payment_intent_id = req.payment_intent_id
    THEN orders
    ELSE Append(orders, [user_id |-> req.user_id, items |-> req.items,
                         total_amount |-> req.total_amount,
                         payment_intent_id |-> req.payment_intent_id,
                         cart_epoch |-> v])

\* createOrder returns, 338-361: clearCart is requested next
CreateOrderReturn(t) ==
    /\ pc[t] = "createOrder"
    /\ \E r \in {"ok", "OrderCreationFailure"} \cup TransportErrors :
          IF r = "ok"
          THEN /\ orders' = RecordOrder(OrderRequest(t), snap[t].epoch)
               /\ pc' = [pc EXCEPT ![t] = "clearCart"]
               /\ calls' = [calls EXCEPT ![t] = Append(@, "clearCart")]
               /\ Quiet(t)
               /\ UNCHANGED <<processing, snap, intent>>
          ELSE /\ Catch(t, r, ApiToasts(r))
               /\ UNCHANGED orders
    /\ UNCHANGED <<catalog, serverCart, intents, cart, user, step>>
    /\ UNCHANGED rest

\* clearCart returns (helpers.ts 171-180), then 362-363 and finally
ClearCartReturn(t) ==
    /\ pc[t] = "clearCart"
    /\ \E r \in {"ok"} \cup TransportErrors :
          IF r = "ok"
          THEN /\ serverCart' = ClearCartSrv(serverCart)
               /\ StoreSet(t, NULL)
               /\ step' = [step EXCEPT ![t] = "success"]
               /\ toast' = [toast EXCEPT ![t] = <<"Cart cleared", ToastSuccess>>]
               /\ console' = [console EXCEPT ![t] = NoError]
               /\ calls' = [calls EXCEPT ![t] = <<>>]
               /\ processing' = [processing EXCEPT ![t] = FALSE]
               /\ pc' = [pc EXCEPT ![t] = "idle"]
               /\ snap' = [snap EXCEPT ![t] = NULL]
               /\ intent' = [intent EXCEPT ![t] = 0]
          ELSE /\ Catch(t, r, Append(ApiToasts(r), "Failed to clear cart"))
               /\ UNCHANGED <<serverCart, cart, step>>
    /\ UNCHANGED <<catalog, intents, orders, user>>
    /\ UNCHANGED rest

\* The checkout page of tab t.
CheckoutNext(t) ==
    \/ SubmitShipping(t)
    \/ Back(t)
    \/ Remount(t)
    \/ SubmitPay(t)
    \/ CreateIntentReturn(t)
    \/ \E o \in {"confirmed", "declined", "errored"} : ConfirmReturn(t, o)
    \/ CreateOrderReturn(t)
    \/ ClearCartReturn(t)

\* One tab of the user, shopping and checking out.
Next ==
    \/ FetchCart("t1")
    \/ \E p \in Products, q \in 1..MaxQty : AddToCart("t1", p, q)
    \/ \E p \in Products : RemoveFromCart("t1", p)
    \/ \E p \in Products, q \in 0..MaxQty : UpdateQuantity("t1", p, q)
    \/ CheckoutNext("t1")

Spec == Init /\ [][Next]_vars

\* The same, while the stock of the catalog changes.
NextStock ==
    \/ Next
    \/ \E p \in Products, s \in 0..MaxStock : StockChange(p, s)

SpecStock == Init /\ [][NextStock]_vars

\* Two tabs of the user on the same server cart, both shopping (adding to
\* the cart) and checking out.
InitTabs ==
    /\ InitState
    /\ user = [t \in Tabs |-> User]
    /\ InitRest

NextTabs ==
    \E t \in Tabs :
        \/ FetchCart(t)
        \/ \E p \in Products, q \in 1..MaxQty : AddToCart(t, p, q)
        \/ CheckoutNext(t)

SpecTabs == InitTabs /\ [][NextTabs]_vars

\* One tab checking out, every awaited call of onSubmit returning or timing
\* out in the end (apiClient sets a timeout of 15 s on every request).
Returns(t) ==
    \/ CreateIntentReturn(t)
    \/ \E o \in {"confirmed", "declined", "errored"} : ConfirmReturn(t, o)
    \/ CreateOrderReturn(t)
    \/ ClearCartReturn(t)

NextLive == FetchCart("t1") \/ CheckoutNext("t1")

SpecLive == Init /\ [][NextLive]_vars /\ WF_vars(Returns("t1"))

\* One tab shopping in a catalog of two products whose prices and stock
\* change, starting from the cart of the design document's scenario
\* (P1 x 2 at $10); no checkout.
CartProducts == {"P1", "P2"}

InitCart ==
    /\ catalog = [p \in CartProducts |->
                    [price |-> 10, stock |-> MaxStock, is_active |-> TRUE]]
    /\ serverCart = [items |-> <<Line("P1", 2, 10)>>, epoch |-> 0]
    /\ intents = <<>>
    /\ orders = <<>>
    /\ cart = [t \in Tabs |-> NULL]
    /\ user = [t \in Tabs |-> User]
    /\ step = [t \in Tabs |-> "shipping"]
    /\ processing = [t \in Tabs |-> FALSE]
    /\ pc = [t \in Tabs |-> "idle"]
    /\ snap = [t \in Tabs |-> NULL]
    /\ intent = [t \in Tabs |-> 0]
    /\ calls = [t \in Tabs |-> <<>>]
    /\ toast = [t \in Tabs |-> <<>>]
    /\ console = [t \in Tabs |-> NoError]
    /\ InitRest

NextCart ==
    \/ FetchCart("t1")
    \/ \E p \in CartProducts, q \in 1..MaxQty : AddToCart("t1", p, q)
    \/ \E p \in CartProducts : RemoveFromCart("t1", p)
    \/ \E p \in CartProducts, q \in 0..MaxQty : UpdateQuantity("t1", p, q)
    \/ ClearCart("t1")
    \/ SyncPrices("t1")
    \/ \E p \in CartProducts, pr \in {10, 20} : PriceChange(p, pr)
    \/ \E p \in CartProducts, s \in 0..MaxStock : StockChange(p, s)

SpecCart == InitCart /\ [][NextCart]_vars

\* ---- Checkout Preparer (design document 4.2, CheckoutResponse) ----

\* A preparer that also lists the lines whose snapshot is not the catalog's
\* price.
Unavailable_PriceDrift(sc) ==
    {sc.items[i].product_id : i \in
        {j \in 1..Len(sc.items) :
            \/ catalog[sc.items[j].product_id].stock < sc.items[j].quantity
            \/ ~catalog[sc.items[j].product_id].is_active
            \/ catalog[sc.items[j].product_id].price # sc.items[j].price}}

Unavailable(sc) ==
    {sc.items[i].product_id : i \in
        {j \in 1..Len(sc.items) :
            \/ catalog[sc.items[j].product_id].stock < sc.items[j].quantity
            \/ ~catalog[sc.items[j].product_id].is_active}}

PrepareCheckout(sc) ==
    [cart_id |-> CartId, items |-> sc.items, total_items |-> SumQty(sc.items),
     available_for_checkout |-> Unavailable(sc) = {},
     unavailable_items |-> Unavailable(sc)]

\* CartService.prepareCheckout (part_004 124-127): the response of the
\* preparer, or a rejection that leaves the caller with what it had.
PrepareCheckoutCall(t) ==
    /\ \E ok \in BOOLEAN :
          prepared' = IF ok
                      THEN [prepared EXCEPT ![t] = PrepareCheckout(serverCart)]
                      ELSE prepared
    /\ UNCHANGED shopVars
    /\ UNCHANGED <<isLoading, inflight, thrown, isAuthenticated, session,
                   authCalls, authLoading, product, quantity>>

\* The carts of two lines the user can have put together: any quantities,
\* the first line added at $10 or at $20.
TwoLineCarts ==
    {[items |-> <<Line("P1", q1, pr), Line("P2", q2, 10)>>, epoch |-> 0] :
        q1 \in 1..MaxQty, q2 \in 1..MaxQty, pr \in {10, 20}}

InitPrepare ==
    /\ catalog = [p \in CartProducts |->
                    [price |-> 10, stock |-> MaxStock, is_active |-> TRUE]]
    /\ serverCart \in TwoLineCarts
    /\ intents = <<>>
    /\ orders = <<>>
    /\ cart = [t \in Tabs |-> NULL]
    /\ user = [t \in Tabs |-> User]
    /\ step = [t \in Tabs |-> "shipping"]
    /\ processing = [t \in Tabs |-> FALSE]
    /\ pc = [t \in Tabs |-> "idle"]
    /\ snap = [t \in Tabs |-> NULL]
    /\ intent = [t \in Tabs |-> 0]
    /\ calls = [t \in Tabs |-> <<>>]
    /\ toast = [t \in Tabs |-> <<>>]
    /\ console = [t \in Tabs |-> NoError]
    /\ InitRest

\* One tab preparing the checkout of its cart, again and again, while prices,
\* stock and sale status of the two products change.
NextPrepare ==
    \/ PrepareCheckoutCall("t1")
    \/ \E p \in CartProducts, pr \in {10, 20} : PriceChange(p, pr)
    \/ \E p \in CartProducts, s \in 0..MaxStock : StockChange(p, s)
    \/ \E p \in CartProducts, a \in BOOLEAN : ActiveChange(p, a)

SpecPrepare == InitPrepare /\ [][NextPrepare]_vars

\* ---- useCartStore with its requests on the wire (helpers.ts 121-192) ----
\* A store action sends one request to a cart endpoint (part_004 100-132),
\* the cart service answers it, and the action resumes with the answer; other
\* store actions may start and end in between.

\* The requests that can be on the wire at the same time.
RequestIds == {"r1", "r2"}

StoreOps == {"fetchCart", "addToCart", "updateQuantity", "removeFromCart",
             "clearCart", "syncPrices"}

Pending == [status |-> "pending", cart |-> NULL, error |-> "none"]

\* The arguments the store action passes on to its endpoint.
Request(id, t, op, p, q) ==
    [id |-> id, tab |-> t, op |-> op,
     product_id |-> IF op \in {"addToCart", "updateQuantity", "removeFromCart"}
                    THEN p ELSE "-",
     quantity |-> IF op \in {"addToCart", "updateQuantity"} THEN q ELSE 0,
     answer |-> Pending]

\* Neither the step nor the store action ending in it raises, throws or logs
\* anything in tab t.
StoreQuiet(t) ==
    /\ toast' = [toast EXCEPT ![t] = <<>>]
    /\ thrown' = [thrown EXCEPT ![t] = "none"]
    /\ UNCHANGED console

\* Tab t calls a store action: fetchCart sets isLoading first, every action
\* then awaits its endpoint.
CallStore(t, op, p, q) ==
    /\ \E id \in RequestIds : \A r \in inflight : r.id # id
    /\ LET id == CHOOSE i \in RequestIds : \A r \in inflight : r.id # i IN
       inflight' = inflight \cup {Request(id, t, op, p, q)}
    /\ isLoading' = IF op = "fetchCart"
                    THEN [isLoading EXCEPT ![t] = TRUE] ELSE isLoading
    /\ StoreQuiet(t)
    /\ UNCHANGED <<catalog, serverCart, intents, orders, cart, user, step,
                   processing, pc, snap, intent, calls>>
    /\ UNCHANGED <<prepared, isAuthenticated, session, authCalls,
                   authLoading, product, quantity>>

\* addItem that does not look at the quantity.
AddItemError_ActiveOnly(p, q) ==
    IF ~catalog[p].is_active THEN "ProductUnavailable" ELSE "none"

\* The error addItem fails with (design document 4.1), "none" if it succeeds.
AddItemError(p, q) ==
    IF q < 1 THEN "InvalidQuantity"
    ELSE IF ~catalog[p].is_active THEN "ProductUnavailable"
    ELSE "none"

\* The error updateItem fails with, "none" if it succeeds.  The design
\* document names no error for a product that has no line in the cart.
UpdateItemError(sc, p, q) ==
    IF q = 0 THEN "none"
    ELSE IF q > catalog[p].stock THEN "InsufficientStock"
    ELSE IF IndexOf(sc.items, p) = 0 THEN "NotInCart"
    ELSE "none"

EndpointError(r) ==
    IF r.op = "addToCart" THEN AddItemError(r.product_id, r.quantity)
    ELSE IF r.op = "updateQuantity"
    THEN UpdateItemError(serverCart, r.product_id, r.quantity)
    ELSE "none"

\* The server cart after the request.
EndpointEffect(r) ==
    CASE r.op = "fetchCart" -> serverCart
      [] r.op = "addToCart" -> AddItemSrv(serverCart, r.product_id, r.quantity)
      [] r.op = "updateQuantity" ->
             UpdateItemSrv(serverCart, r.product_id, r.quantity)
      [] r.op = "removeFromCart" -> RemoveItemSrv(serverCart, r.product_id)
      [] r.op = "clearCart" -> ClearCartSrv(serverCart)
      [] r.op = "syncPrices" -> SyncPricesSrv(serverCart)

Answered(r, a) == [r EXCEPT !.answer = a]

\* The cart service handles request r, one request at a time, and answers
\* with the Cart after the request or with the error.
CartEndpoint(r) ==
    /\ r \in inflight
    /\ r.answer = Pending
    /\ IF EndpointError(r) # "none"
       THEN /\ inflight' = (inflight \ {r}) \cup
                   {Answered(r, [status |-> "error", cart |-> NULL,
                                 error |-> EndpointError(r)])}
            /\ UNCHANGED serverCart
       ELSE /\ \A i \in 1..Len(EndpointEffect(r).items) :
                   EndpointEffect(r).items[i].quantity <= MaxQty
            /\ EndpointEffect(r).epoch <= MaxClears
            /\ serverCart' = EndpointEffect(r)
            /\ inflight' = (inflight \ {r}) \cup
                   {Answered(r, [status |-> "ok",
                                 cart |-> CartResponse(serverCart'),
                                 error |-> "none"])}
    /\ StoreQuiet(r.tab)
    /\ UNCHANGED <<catalog, intents, orders, cart, user, step, processing,
                   pc, snap, intent, calls>>
    /\ UNCHANGED <<isLoading, prepared, isAuthenticated, session, authCalls,
                   authLoading, product, quantity>>

SuccessToast(op) ==
    CASE op = "fetchCart" -> <<>>
      [] op = "addToCart" -> <<"Added to cart!">>
      [] op = "updateQuantity" -> <<"Cart updated">>
      [] op = "removeFromCart" -> <<"Removed from cart">>
      [] op = "clearCart" -> <<"Cart cleared">>
      [] op = "syncPrices" -> <<"Prices updated">>

\* error.response?.data?.detail || fallback for addToCart and updateQuantity,
\* a fixed text for the others; fetchCart shows nothing.
FailureToast(op, error) ==
    CASE op = "fetchCart" -> <<>>
      [] op = "addToCart" ->
             <<IF error \in TransportErrors THEN "Failed to add to cart"
               ELSE error>>
      [] op = "updateQuantity" ->
             <<IF error \in TransportErrors THEN "Failed to update cart"
               ELSE error>>
      [] op = "removeFromCart" -> <<"Failed to remove item">>
      [] op = "clearCart" -> <<"Failed to clear cart">>
      [] op = "syncPrices" -> <<"Failed to sync prices">>

\* The try block after the await: set() and the success toast.
StoreResolve(r) ==
    /\ cart' = [cart EXCEPT ![r.tab] =
                   IF r.op = "clearCart" THEN NULL ELSE r.answer.cart]
    /\ isLoading' = IF r.op = "fetchCart"
                    THEN [isLoading EXCEPT ![r.tab] = FALSE] ELSE isLoading
    /\ toast' = [toast EXCEPT ![r.tab] = SuccessToast(r.op)]
    /\ thrown' = [thrown EXCEPT ![r.tab] = "none"]

\* A catch block that drops the cart of the store.
StoreReject_DropsCart(r, error) ==
    /\ cart' = [cart EXCEPT ![r.tab] = NULL]
    /\ isLoading' = IF r.op = "fetchCart"
                    THEN [isLoading EXCEPT ![r.tab] = FALSE] ELSE isLoading
    /\ toast' = [toast EXCEPT ![r.tab] =
                    ApiToasts(error) \o FailureToast(r.op, error)]
    /\ thrown' = [thrown EXCEPT ![r.tab] =
                     IF r.op = "fetchCart" THEN "none" ELSE error]

\* The catch block: fetchCart sets isLoading false and swallows the error,
\* the other actions raise a toast and rethrow.
StoreReject(r, error) ==
    /\ UNCHANGED cart
    /\ isLoading' = IF r.op = "fetchCart"
                    THEN [isLoading EXCEPT ![r.tab] = FALSE] ELSE isLoading
    /\ toast' = [toast EXCEPT ![r.tab] =
                    ApiToasts(error) \o FailureToast(r.op, error)]
    /\ thrown' = [thrown EXCEPT ![r.tab] =
                     IF r.op = "fetchCart" THEN "none" ELSE error]

\* The answer to request r arrives and the store action resumes.
StoreReturn(r) ==
    /\ r \in inflight
    /\ r.answer # Pending
    /\ inflight' = inflight \ {r}
    /\ IF r.answer.status = "ok"
       THEN StoreResolve(r)
       ELSE StoreReject(r, r.answer.error)
    /\ UNCHANGED <<catalog, serverCart, intents, orders, user, step,
                   processing, pc, snap, intent, calls, console>>
    /\ UNCHANGED <<prepared, isAuthenticated, session, authCalls,
                   authLoading, product, quantity>>

\* Request r gets no usable answer (timeout, 429, 5xx): the await rejects.
StoreTimeout(r) ==
    /\ r \in inflight
    /\ r.answer = Pending
    /\ inflight' = inflight \ {r}
    /\ \E e \in TransportErrors : StoreReject(r, e)
    /\ UNCHANGED <<catalog, serverCart, intents, orders, user, step,
                   processing, pc, snap, intent, calls, console>>
    /\ UNCHANGED <<prepared, isAuthenticated, session, authCalls,
                   authLoading, product, quantity>>

\* One tab using its cart store, one store action after the other, while
\* stock and sale status of the product change.
NextStore ==
    \/ \E op \in StoreOps, p \in Products, q \in 0..MaxQty :
          /\ inflight = {}
          /\ CallStore("t1", op, p, q)
    \/ \E r \in inflight : CartEndpoint(r)
    \/ \E r \in inflight : StoreReturn(r)
    \/ \E r \in inflight : StoreTimeout(r)
    \/ \E p \in Products, s \in 0..MaxStock : StockChange(p, s)
    \/ \E p \in Products, a \in BOOLEAN : ActiveChange(p, a)

SpecStore == InitTabs /\ [][NextStore]_vars

\* One tab with up to two store actions running at the same time: the
\* fetchCart of App (App.tsx 41-46) and the buttons of the pages.
NextStoreOverlap ==
    \/ \E op \in {"fetchCart", "addToCart", "removeFromCart"},
          p \in Products, q \in 1..MaxQty : CallStore("t1", op, p, q)
    \/ \E r \in inflight : CartEndpoint(r)
    \/ \E r \in inflight : StoreReturn(r)
    \/ \E r \in inflight : StoreTimeout(r)

SpecStoreOverlap == InitTabs /\ [][NextStoreOverlap]_vars

\* Two tabs of the user, each running one store action at a time: reading
\* the cart, adding to it and setting quantities.
NextStoreTabs ==
    \/ \E t \in Tabs, op \in {"fetchCart", "addToCart", "updateQuantity"},
          p \in Products, q \in 1..MaxQty :
          /\ \A r \in inflight : r.tab # t
          /\ CallStore(t, op, p, q)
    \/ \E r \in inflight : CartEndpoint(r)
    \/ \E r \in inflight : StoreReturn(r)

SpecStoreTabs == InitTabs /\ [][NextStoreTabs]_vars

\* ---- useAuthStore (auth.store.ts 18-88) and AuthService (part_002) ----

SessionKeys == {"access_token", "refresh_token", "user"}

AuthOps == {"login", "register", "logout", "refreshAuth"}

\* authService.getStoredUser() and authService.isAuthenticated()
StoredUser(keys) == IF "user" \in keys THEN User ELSE NULL
HasToken(keys) == "access_token" \in keys

\* Tab t calls an auth store action: login and register set isLoading, and
\* the request interceptor attaches the access token if there is one.
AuthCall(t, op) ==
    /\ \A c \in authCalls[t] : c.op # op
    /\ authCalls' = [authCalls EXCEPT ![t] =
                        @ \cup {[op |-> op, token |-> HasToken(session[t])]}]
    /\ authLoading' = IF op \in {"login", "register"}
                      THEN [authLoading EXCEPT ![t] = TRUE] ELSE authLoading
    /\ UNCHANGED shopVars
    /\ UNCHANGED <<isLoading, inflight, thrown, prepared, isAuthenticated,
                   session, product, quantity>>

\* loadUser
LoadUser(t) ==
    /\ user' = [user EXCEPT ![t] = StoredUser(session[t])]
    /\ isAuthenticated' = [isAuthenticated EXCEPT ![t] = HasToken(session[t])]
    /\ UNCHANGED <<catalog, serverCart, intents, orders, cart, step,
                   processing, pc, snap, intent, calls, toast, console>>
    /\ UNCHANGED <<isLoading, inflight, thrown, prepared, session, authCalls,
                   authLoading, product, quantity>>

\* The answers an auth endpoint can give to call c: login and register
\* check the credentials, /auth/me and /auth/logout the token.
AuthAnswers(c) ==
    (IF c.op \in {"login", "register"} \/ c.token THEN {"ok"} ELSE {})
        \cup {"Unauthorized"} \cup TransportErrors

\* A 401 from an /auth URL: the response interceptor removes the session
\* keys and sets window.location.href, and the page loaded then constructs
\* its auth store from the empty sessionStorage; the calls of the page left
\* are gone.
SessionExpired(t) ==
    /\ session' = [session EXCEPT ![t] = {}]
    /\ user' = [user EXCEPT ![t] = NULL]
    /\ isAuthenticated' = [isAuthenticated EXCEPT ![t] = FALSE]
    /\ authLoading' = [authLoading EXCEPT ![t] = FALSE]
    /\ authCalls' = [authCalls EXCEPT ![t] = {}]

\* login / register: setTokens, then set({user, isAuthenticated: true,
\* isLoading: false}); set({isLoading: false}) and rethrow on failure.
SignInReturn(t, c, r) ==
    /\ authCalls' = [authCalls EXCEPT ![t] = @ \ {c}]
    /\ authLoading' = [authLoading EXCEPT ![t] = FALSE]
    /\ IF r = "ok"
       THEN /\ session' = [session EXCEPT ![t] = SessionKeys]
            /\ user' = [user EXCEPT ![t] = User]
            /\ isAuthenticated' = [isAuthenticated EXCEPT ![t] = TRUE]
       ELSE UNCHANGED <<session, user, isAuthenticated>>

\* logout: clearTokens in the finally of the service, set({user: null,
\* isAuthenticated: false}) in the finally of the store.
LogoutReturn(t, c, r) ==
    /\ authCalls' = [authCalls EXCEPT ![t] = @ \ {c}]
    /\ session' = [session EXCEPT ![t] = {}]
    /\ user' = [user EXCEPT ![t] = NULL]
    /\ isAuthenticated' = [isAuthenticated EXCEPT ![t] = FALSE]
    /\ UNCHANGED authLoading

\* refreshAuth: getCurrentUser stores the user; the catch block sets
\* user null and isAuthenticated false and rethrows.
RefreshAuthReturn(t, c, r) ==
    /\ authCalls' = [authCalls EXCEPT ![t] = @ \ {c}]
    /\ IF r = "ok"
       THEN /\ session' = [session EXCEPT ![t] = @ \cup {"user"}]
            /\ user' = [user EXCEPT ![t] = User]
            /\ isAuthenticated' = [isAuthenticated EXCEPT ![t] = TRUE]
       ELSE /\ user' = [user EXCEPT ![t] = NULL]
            /\ isAuthenticated' = [isAuthenticated EXCEPT ![t] = FALSE]
            /\ UNCHANGED session
    /\ UNCHANGED authLoading

\* The auth endpoint answers call c of tab t with r.
AuthReturn(t, c, r) ==
    /\ c \in authCalls[t]
    /\ r \in AuthAnswers(c)
    /\ IF r = "Unauthorized" THEN SessionExpired(t)
       ELSE IF c.op \in {"login", "register"} THEN SignInReturn(t, c, r)
       ELSE IF c.op = "logout" THEN LogoutReturn(t, c, r)
       ELSE RefreshAuthReturn(t, c, r)
    /\ UNCHANGED <<catalog, serverCart, intents, orders, cart, step,
                   processing, pc, snap, intent, calls, toast, console>>
    /\ UNCHANGED <<isLoading, inflight, thrown, prepared, product, quantity>>

\* One tab signing in and out.
NextAuth ==
    \/ \E op \in AuthOps : AuthCall("t1", op)
    \/ LoadUser("t1")
    \/ \E c \in authCalls["t1"], r \in {"ok", "Unauthorized"} \cup TransportErrors :
          AuthReturn("t1", c, r)

SpecAuth == Init /\ [][NextAuth]_vars

\* ---- ProductDetailPage (ProductDetailPage.tsx 12-224) ----

\* The Product that GET /api/products/:id returns for p.
ProductResponse(p) ==
    [id |-> p, price |-> catalog[p].price, stock |-> catalog[p].stock,
     is_active |-> catalog[p].is_active]

\* loadProduct, 31-48: on success setProduct(data) and setQuantity(1), on
\* failure an error message and nothing else.  Whatever handleQuantityChange
\* did while the request was under way is overwritten by setQuantity(1), so
\* the request and its answer are one step.
LoadProduct(t, p) ==
    /\ \E ok \in BOOLEAN :
          IF ok
          THEN /\ product' = [product EXCEPT ![t] = ProductResponse(p)]
               /\ quantity' = [quantity EXCEPT ![t] = 1]
          ELSE UNCHANGED <<product, quantity>>
    /\ UNCHANGED shopVars
    /\ UNCHANGED <<isLoading, inflight, thrown, prepared, isAuthenticated,
                   session, authCalls, authLoading>>

\* product?.stock || 1
QuantityLimit(pr) == IF pr = NULL \/ pr.stock = 0 THEN 1 ELSE pr.stock

\* handleQuantityChange without the test against the stock.
HandleQuantityChange_NoStockTest(t, delta) ==
    /\ quantity[t] + delta >= 1
    /\ quantity' = [quantity EXCEPT ![t] = quantity[t] + delta]
    /\ UNCHANGED shopVars
    /\ UNCHANGED <<isLoading, inflight, thrown, prepared, isAuthenticated,
                   session, authCalls, authLoading, product>>

\* handleQuantityChange, 50-55, called by the minus and the plus button
\* with -1 and +1 (184-193)
HandleQuantityChange(t, delta) ==
    /\ quantity' = IF /\ quantity[t] + delta >= 1
                      /\ quantity[t] + delta <= QuantityLimit(product[t])
                   THEN [quantity EXCEPT ![t] = quantity[t] + delta]
                   ELSE quantity
    /\ UNCHANGED shopVars
    /\ UNCHANGED <<isLoading, inflight, thrown, prepared, isAuthenticated,
                   session, authCalls, authLoading, product>>

\* handleAddToCart, 57-74, behind the button that is disabled for a product
\* out of stock or inactive (206): addToCart(product.id, quantity)
HandleAddToCart(t) ==
    /\ isAuthenticated[t]
    /\ product[t] # NULL
    /\ product[t].stock # 0 /\ product[t].is_active
    /\ AddToCart(t, product[t].id, quantity[t])

\* The user opens the shop with an empty cart.
InitProduct ==
    /\ catalog = [p \in Products |->
                    [price |-> 10, stock |-> MaxShownStock, is_active |-> TRUE]]
    /\ serverCart = [items |-> <<>>, epoch |-> 0]
    /\ intents = <<>>
    /\ orders = <<>>
    /\ cart = [t \in Tabs |-> NULL]
    /\ user = [t \in Tabs |-> User]
    /\ step = [t \in Tabs |-> "shipping"]
    /\ processing = [t \in Tabs |-> FALSE]
    /\ pc = [t \in Tabs |-> "idle"]
    /\ snap = [t \in Tabs |-> NULL]
    /\ intent = [t \in Tabs |-> 0]
    /\ calls = [t \in Tabs |-> <<>>]
    /\ toast = [t \in Tabs |-> <<>>]
    /\ console = [t \in Tabs |-> NoError]
    /\ InitRest

\* One tab on a product page, choosing a quantity and adding to the cart,
\* while the stock and the sale status of the product change.
NextProduct ==
    \/ \E p \in Products : LoadProduct("t1", p)
    \/ \E delta \in {-1, 1} : HandleQuantityChange("t1", delta)
    \/ HandleAddToCart("t1")
    \/ \E p \in Products : RemoveFromCart("t1", p)
    \/ \E p \in Products, s \in 0..MaxShownStock : StockChange(p, s)
    \/ \E p \in Products, a \in BOOLEAN : ActiveChange(p, a)

SpecProduct == InitProduct /\ [][NextProduct]_vars

\* ---- vocabulary of the properties ----

Called(t, name) == \E i \in 1..Len(calls[t]) : calls[t][i] = name

CalledBefore(t, a, b) ==
    \E i, j \in 1..Len(calls[t]) : i < j /\ calls[t][i] = a /\ calls[t][j] = b

HasOrder(i) == \E k \in 1..Len(orders) : orders[k].payment_intent_id = i

HeldByRunningCheckout(i) == \E t \in Tabs : intent[t] = i

\* A captured payment with no order, whose checkout has ended.
Dangling(i) ==
    /\ intents[i].status = "confirmed"
    /\ ~HasOrder(i)
    /\ ~HeldByRunningCheckout(i)

\* The items of an order for the cart lines `items`.
OrderItems(items) ==
    [i \in 1..Len(items) |->
        [product_id |-> items[i].product_id, quantity |-> items[i].quantity,
         price |-> items[i].price]]

IntentCreated == Len(intents') = Len(intents) + 1
OrderRecorded == Len(orders') = Len(orders) + 1

\* The step in which the submission of t ends because a payment call failed.
PaymentFailed(t) ==
    /\ pc[t] \in {"createPaymentIntent", "confirmPayment"}
    /\ pc'[t] = "idle"

\* The step in which the clearCart of the checkout of t clears the cart.
CheckoutClears(t) ==
    /\ pc[t] = "clearCart"
    /\ pc'[t] = "idle"
    /\ step'[t] = "success"

\* ---- C1 ----
\* C1: Money is never charged without a corresponding order: once a checkout
\* has ended, every payment intent it confirmed is referenced by a recorded
\* order.
C1_ChargedImpliesOrder ==
    \A i \in 1..Len(intents) :
        (intents[i].status = "confirmed" /\ ~HeldByRunningCheckout(i))
            => HasOrder(i)

\* ---- C2 ----
\* C2: Within a checkout clearCart is invoked only after createOrder has
\* returned successfully in that same checkout: a checkout that has called
\* clearCart has called createOrder before, and the order of its payment
\* intent is recorded.
C2_ClearOnlyAfterOrder ==
    \A t \in Tabs :
        Called(t, "clearCart") =>
            /\ CalledBefore(t, "createOrder", "clearCart")
            /\ HasOrder(intent[t])

\* ---- C3 ----
\* C3: After order recording failed for a confirmed payment, payment is not
\* re-run for that purchase: no payment intent is created for cart contents
\* for which a confirmed payment without an order is left behind.  (With
\* every user signed in, a payment is left without an order only by a
\* failed createOrder.)
C3_NoRepaymentAfterOrderFailure ==
    [][((\A t \in Tabs : user[t] # NULL) /\ IntentCreated) =>
          ~\E i \in 1..Len(intents) :
              /\ Dangling(i)
              /\ intents[i].cart_epoch = intents'[Len(intents')].cart_epoch
              /\ intents[i].amount = intents'[Len(intents')].amount
      ]_vars

\* ---- C4 ----
\* C4: When createPaymentIntent or confirmPayment fails, the checkout ends
\* without success, has not called createOrder or clearCart, leaves the
\* server cart, the store's cart and the orders as they are, and releases
\* the processing flag.
C4_PaymentFailureIsClean ==
    [][\A t \in Tabs :
          PaymentFailed(t) =>
              /\ ~Called(t, "createOrder")
              /\ ~Called(t, "clearCart")
              /\ orders' = orders
              /\ serverCart' = serverCart
              /\ cart' = cart
              /\ step'[t] = step[t]
              /\ processing'[t] = FALSE
      ]_vars

\* A declined or errored payment whose checkout has ended, cart still in place.
C4_Witness ==
    \E i \in 1..Len(intents), t \in Tabs :
        /\ intents[i].status \in {"declined", "errored"}
        /\ pc[t] = "idle"
        /\ ~processing[t]
        /\ step[t] = "payment"
        /\ cart[t] # NULL
        /\ orders = <<>>

\* ---- C5 ----
\* C5: No payment intent is created in a checkout that has not called
\* prepareCheckout before createPaymentIntent.
C5_PreparedBeforePayment ==
    \A t \in Tabs :
        Called(t, "createPaymentIntent") =>
            CalledBefore(t, "prepareCheckout", "createPaymentIntent")

\* ---- C6 ----
\* C6: At most one checkout is in flight per cart: no payment intent is
\* created for a submission while another checkout of the same cart is
\* between its payment creation and its terminal state.
C6_OneCheckoutInFlight ==
    [][\A t \in Tabs :
          (pc[t] = "createPaymentIntent" /\ IntentCreated /\ intent'[t] # 0) =>
              \A u \in Tabs \ {t} :
                  pc[u] \notin {"confirmPayment", "createOrder", "clearCart"}
      ]_vars

\* ---- C7 ----
\* C7: The items and the total recorded in the order of a checkout equal the
\* cart's contents at the moment that checkout clears the cart.
C7_OrderEqualsClearedCart ==
    [][\A t \in Tabs, k \in 1..Len(orders) :
          (CheckoutClears(t) /\ orders[k].payment_intent_id = intent[t]) =>
              /\ orders[k].items = OrderItems(serverCart.items)
              /\ orders[k].total_amount = SumTotals(serverCart.items)
      ]_vars

\* ---- C8 ----
\* C8: An order is created exactly once per successful checkout: no two
\* orders are recorded for the same cart contents (the same purchase).
C8_OneOrderPerPurchase ==
    \A i, j \in 1..Len(orders) :
        (orders[i].cart_epoch = orders[j].cart_epoch
            /\ orders[i].items = orders[j].items) => i = j

\* ---- C9 ----
\* C9: createIntent is refused when the requested amount differs from the
\* subtotal of the server cart, so the amount of every created intent is the
\* server cart's subtotal at that time, and the total_amount of a recorded
\* order is the amount of the intent it references.
C9_AmountsFollowServerCart ==
    [][/\ \A t \in Tabs :
             (pc[t] = "createPaymentIntent"
                /\ SubtotalOf(snap[t]) # SumTotals(serverCart.items))
                 => (intent'[t] = 0 /\ pc'[t] # "confirmPayment")
       /\ IntentCreated =>
             intents'[Len(intents')].amount = SumTotals(serverCart.items)
       /\ OrderRecorded =>
             orders'[Len(orders')].total_amount =
                 intents[orders'[Len(orders')].payment_intent_id].amount
      ]_vars

\* An order is recorded while another checkout holds a stale cart snapshot
\* and waits for createPaymentIntent.
C9_Witness ==
    /\ Len(orders) >= 1
    /\ \E t \in Tabs :
          /\ pc[t] = "createPaymentIntent"
          /\ SubtotalOf(snap[t]) # SumTotals(serverCart.items)

\* ---- C10 ----
\* C10: If the Checkout Preparer reports available_for_checkout = false for
\* the cart, no payment intent is created.
C10_NoPaymentWhenUnavailable ==
    [][IntentCreated => PrepareCheckout(serverCart).available_for_checkout]_vars

\* ---- C11 ----
\* C11: A checkout is not started on an empty cart: while the cart the page
\* holds is null or has no items no submission is accepted, and a payment
\* intent is created and an order is recorded only by a submission that
\* captured a cart with items.
C11_NoCheckoutOnEmptyCart ==
    [][\A t \in Tabs :
          /\ (cart[t] = NULL \/ Len(cart[t].items) = 0) =>
                 (pc[t] = "idle" => pc'[t] = "idle")
          /\ (pc[t] \in {"createPaymentIntent", "createOrder"}
                /\ (IntentCreated \/ OrderRecorded)) =>
                 (snap[t] # NULL /\ Len(snap[t].items) > 0)
      ]_vars

\* The page is at the payment step when the cart has become empty.
C11_Witness ==
    \E t \in Tabs :
        /\ step[t] = "payment"
        /\ pc[t] = "idle"
        /\ cart[t] # NULL
        /\ Len(cart[t].items) = 0

\* ---- vocabulary of the failure properties ----

\* The step in which the checkout of t ends.
Ends(t) == pc[t] # "idle" /\ pc'[t] = "idle"

\* How often the running checkout of t has called `name`.
Count(t, name) == Cardinality({i \in 1..Len(calls[t]) : calls[t][i] = name})

\* The step of t raises the toast `text`.
Raises(t, text) == \E i \in 1..Len(toast'[t]) : toast'[t][i] = text

\* After the step an order references payment intent i.
HasOrderNext(i) == \E k \in 1..Len(orders') : orders'[k].payment_intent_id = i

\* ---- C12 ----
\* C12: A checkout that called createOrder and ends with its payment
\* confirmed and no order recorded has retried createOrder, and ends neither
\* with the success toast nor with the ordinary 'Payment failed. Please try
\* again.' toast.
C12_DanglingPaymentEscalated ==
    [][\A t \in Tabs :
          (/\ Ends(t)
           /\ Called(t, "createOrder")
           /\ intents'[intent[t]].status = "confirmed"
           /\ ~HasOrderNext(intent[t]))
          => /\ Count(t, "createOrder") >= 2
             /\ ~Raises(t, ToastSuccess)
             /\ ~Raises(t, ToastFailed)
      ]_vars

\* ---- C13 ----
\* C13: A checkout ends on a transient failure (timeout, 429, 5xx) of a
\* payment call only after it has repeated that call.
C13_GatewayErrorsRetried ==
    [][\A t \in Tabs :
          (PaymentFailed(t) /\ console'[t].error \in TransportErrors)
              => Count(t, console'[t].call) >= 2
      ]_vars

C15_IntentStatusMachine ==
    [][/\ \A i \in 1..Len(intents) :
             intents'[i].status # intents[i].status =>
                 /\ intents[i].status = "created"
                 /\ intents'[i].status \in {"confirmed", "declined", "errored"}
       /\ \A t \in Tabs :
             (pc[t] # "confirmPayment" /\ pc'[t] = "confirmPayment") =>
                 /\ IntentCreated
                 /\ intent'[t] = Len(intents')
                 /\ intents'[intent'[t]].status = "created"
       /\ \A t \in Tabs :
             (pc[t] = "confirmPayment"
                /\ intents'[intent[t]].status \in {"declined", "errored"}) =>
                 (pc'[t] = "idle" /\ orders' = orders)
       /\ OrderRecorded =>
             intents[orders'[Len(orders')].payment_intent_id].status = "confirmed"
      ]_vars

\* A payment is confirmed on a new intent after an earlier intent for the
\* same cart contents was declined.
C15_Witness ==
    \E i, j \in 1..Len(intents) :
        /\ i < j
        /\ intents[i].status = "declined"
        /\ intents[j].status = "confirmed"
        /\ intents[i].cart_epoch = intents[j].cart_epoch

\* ---- C16 ----
\* C16: Once confirmPayment has been requested, the checkout releases the
\* processing flag only in a terminal state: payment confirmed and its order
\* recorded, or payment declined or errored and no order.
C16_RunsToTerminalState ==
    [][\A t \in Tabs :
          (Called(t, "confirmPayment") /\ processing[t] /\ ~processing'[t]) =>
              \/ /\ intents'[intent[t]].status = "confirmed"
                 /\ HasOrderNext(intent[t])
              \/ /\ intents'[intent[t]].status \in {"declined", "errored"}
                 /\ ~HasOrderNext(intent[t])
      ]_vars

\* ---- C17 ----
\* C17: Every pay submission ends and leaves processing false; the step in
\* which a payment is declined leaves the server cart and the store's cart
\* as they are and the page at the payment step with the submit button
\* enabled.
C17_ChecksOutToTheEnd ==
    /\ \A t \in Tabs : (pc[t] # "idle") ~> (pc[t] = "idle" /\ ~processing[t])
    /\ [][\A t \in Tabs :
             (pc[t] = "confirmPayment"
                /\ intents'[intent[t]].status = "declined") =>
                 /\ serverCart' = serverCart
                 /\ cart' = cart
                 /\ step'[t] = "payment"
                 /\ SubmitEnabled(t)'
         ]_vars

\* A second attempt has succeeded after a declined one: the order of the
\* later intent is recorded and the cart is cleared.
C17_Witness ==
    \E i, j \in 1..Len(intents), t \in Tabs :
        /\ i < j
        /\ intents[i].status = "declined"
        /\ intents[j].status = "confirmed"
        /\ HasOrder(j)
        /\ step[t] = "success"
        /\ ~processing[t]
        /\ serverCart.items = <<>>

\* ---- C18 ----
\* The class of the failure a checkout ended with, by the call that failed
\* and the way it failed: "input" (fix the input and retry), "later" (try
\* again later), "support" (payment captured, no order), or "other".
FailureClass(c) ==
    IF c.error = "AmountMismatch" THEN "input"
    ELSE IF c.call = "createOrder" THEN "support"
    ELSE IF c.call \in {"createPaymentIntent", "confirmPayment"}
            /\ c.error \in TransportErrors THEN "later"
    ELSE "other"

\* C18: Two checkouts that failed with failures of different classes (input,
\* later, support) do not show the same toasts.
C18_FailureClassesDistinguishable ==
    \A t, u \in Tabs :
        (/\ FailureClass(console[t]) \in {"input", "later", "support"}
         /\ FailureClass(console[u]) \in {"input", "later", "support"}
         /\ FailureClass(console[t]) # FailureClass(console[u]))
        => toast[t] # toast[u]

\* ---- vocabulary of the cart properties ----

\* The carts there are: the one the cart service returns and the ones the
\* stores hold.
Carts ==
    {CartResponse(serverCart)} \cup {cart[t] : t \in {u \in Tabs : cart[u] # NULL}}

\* Sum of quantity times unit price snapshot over the first n lines.
RECURSIVE SumOfLines(_, _)
SumOfLines(items, n) ==
    IF n = 0 THEN 0
    ELSE items[n].quantity * items[n].price + SumOfLines(items, n - 1)

\* ---- C19 ----
\* C19: A cart never holds two lines of the same product, and a step in which
\* the quantity of a product already in the cart grows leaves the lines in
\* place and that line's unit price snapshot as it was, whatever the
\* catalog's price has become.
C19_OneLinePerProduct ==
    /\ [](\A c \in Carts : \A i, j \in 1..Len(c.items) :
             c.items[i].product_id = c.items[j].product_id => i = j)
    /\ [][\A i \in 1..Len(serverCart.items), j \in 1..Len(serverCart'.items) :
             (/\ serverCart.items[i].product_id = serverCart'.items[j].product_id
              /\ serverCart.items[i].quantity < serverCart'.items[j].quantity)
             => /\ i = j
                /\ Len(serverCart'.items) = Len(serverCart.items)
                /\ serverCart'.items[j].price = serverCart.items[i].price
         ]_vars

\* After the cart was emptied, P1 is in it on one line with quantity 2 at the
\* snapshot $10 while the catalog's price of P1 is $20.
C19_Witness ==
    /\ serverCart.epoch = 1
    /\ Len(serverCart.items) = 1
    /\ serverCart.items[1].product_id = "P1"
    /\ serverCart.items[1].quantity = 2
    /\ serverCart.items[1].price = 10
    /\ catalog["P1"].price = 20

\* ---- C20 ----
\* C20: In every cart the subtotal is the sum over the lines of quantity
\* times unit price snapshot, every line's total is its quantity times its
\* snapshot, every quantity is at least 1, and a cart without lines has
\* subtotal 0.
C20_CartTotalsConsistent ==
    \A c \in Carts :
        /\ c.subtotal = SumOfLines(c.items, Len(c.items))
        /\ \A i \in 1..Len(c.items) :
              /\ c.items[i].quantity >= 1
              /\ c.items[i].total_price = c.items[i].quantity * c.items[i].price
        /\ Len(c.items) = 0 => c.subtotal = 0

\* The store holds a cart of two lines with subtotal $50: a line of quantity
\* 2 whose snapshot was synced to $20 and a line of quantity 1 at $10.
C20_Witness ==
    \E t \in Tabs :
        /\ cart[t] # NULL
        /\ Len(cart[t].items) = 2
        /\ cart[t].subtotal = 50
        /\ \E i \in 1..2 : cart[t].items[i].quantity = 2 /\ cart[t].items[i].price = 20

\* ---- C21 ----
\* The lines of `items` without those of product p.
Without(items, p) == SelectSeq(items, LAMBDA l : l.product_id # p)

\* C21: For every product, updateItem with quantity 0 is accepted and gives
\* the cart removeItem gives, which is the cart without a line of that
\* product; removing again changes nothing, and removing a product that is
\* not in the cart gives the cart as it is.
C21_UpdateToZeroRemoves ==
    \A p \in CartProducts :
        /\ UpdateItemAccepted(serverCart, p, 0)
        /\ UpdateItemSrv(serverCart, p, 0) = RemoveItemSrv(serverCart, p)
        /\ CartResponse(UpdateItemSrv(serverCart, p, 0)).items
               = Without(serverCart.items, p)
        /\ RemoveItemSrv(RemoveItemSrv(serverCart, p), p)
               = RemoveItemSrv(serverCart, p)
        /\ IndexOf(serverCart.items, p) = 0 =>
               RemoveItemSrv(serverCart, p) = serverCart

\* P1, in the cart at the start, has been taken out and P2 is in the cart:
\* the store shows the cart without P1.
C21_Witness ==
    /\ serverCart.epoch = 0
    /\ IndexOf(serverCart.items, "P1") = 0
    /\ IndexOf(serverCart.items, "P2") # 0
    /\ cart["t1"] # NULL
    /\ cart["t1"].items = serverCart.items

\* ---- C22 ----

\* The cart service answers request r in this step.
Served(r) ==
    /\ r \in inflight
    /\ r.answer = Pending
    /\ \E a \in inflight' : a.id = r.id /\ a.answer # Pending

AnswerOf(r) == (CHOOSE a \in inflight' : a.id = r.id).answer

\* C22: addItem with a quantity below 1 fails with InvalidQuantity, addItem
\* of an inactive product with ProductUnavailable, updateItem with a
\* quantity above the catalog's stock at the time of the call with
\* InsufficientStock, and a request answered with an error leaves the cart
\* of the cart service (lines, quantities, snapshots, totals) as it was.
C22_RejectedMutationChangesNothing ==
    [][\A r \in inflight : Served(r) =>
          /\ (r.op = "addToCart" /\ r.quantity < 1)
                => AnswerOf(r).error = "InvalidQuantity"
          /\ (r.op = "addToCart" /\ r.quantity >= 1
                 /\ ~catalog[r.product_id].is_active)
                => AnswerOf(r).error = "ProductUnavailable"
          /\ (r.op = "updateQuantity" /\ r.quantity > catalog[r.product_id].stock)
                => AnswerOf(r).error = "InsufficientStock"
          /\ AnswerOf(r).status = "error"
                => /\ serverCart' = serverCart
                   /\ CartResponse(serverCart') = CartResponse(serverCart)
      ]_vars

\* updateItem to the quantity the line already has was refused because the
\* catalog's stock had dropped to 0 in the meantime; the store holds the
\* cart of the service.
C22_Witness ==
    /\ catalog["P1"].stock = 0
    /\ cart["t1"] = CartResponse(serverCart)
    /\ serverCart.items = <<Line("P1", 1, 10)>>
    /\ \E r \in inflight :
          /\ r.op = "updateQuantity"
          /\ r.quantity = 1
          /\ r.answer.error = "InsufficientStock"

\* ---- C23 ----
\* C23: syncPrices gives every line the catalog's current price as snapshot
\* and keeps the products and the quantities; and a step that changes the
\* snapshot of a product that stays in the cart is such a rewrite: the lines
\* keep their products and quantities and all snapshots are the catalog's
\* prices.
C23_OnlySyncRewritesSnapshots ==
    /\ [](LET synced == SyncPricesSrv(serverCart).items IN
             /\ Len(synced) = Len(serverCart.items)
             /\ \A k \in 1..Len(synced) :
                   /\ synced[k].product_id = serverCart.items[k].product_id
                   /\ synced[k].quantity = serverCart.items[k].quantity
                   /\ synced[k].price = catalog[synced[k].product_id].price)
    /\ [][(\E i \in 1..Len(serverCart.items), j \in 1..Len(serverCart'.items) :
              /\ serverCart.items[i].product_id = serverCart'.items[j].product_id
              /\ serverCart.items[i].price # serverCart'.items[j].price)
           => /\ Len(serverCart'.items) = Len(serverCart.items)
              /\ \A k \in 1..Len(serverCart.items) :
                    /\ serverCart'.items[k].product_id
                          = serverCart.items[k].product_id
                    /\ serverCart'.items[k].quantity = serverCart.items[k].quantity
                    /\ serverCart'.items[k].price
                          = catalog[serverCart.items[k].product_id].price
         ]_vars

\* The cart of the start (P1 x 2 at $10) with a second line, both lines at
\* the snapshot $20 the catalog has for them now.
C23_Witness ==
    /\ serverCart.epoch = 0
    /\ Len(serverCart.items) = 2
    /\ serverCart.items[1] = Line("P1", 2, 20)
    /\ serverCart.items[2].price = 20
    /\ catalog["P1"].price = 20
    /\ catalog["P2"].price = 20

\* ---- C24 ----
\* C24: the cart service changes a quantity on updateItem only for a writer
\* whose view of the cart is the current one: the cart the writing tab holds,
\* if it holds one, has the lines of the service's cart.
C24_StaleWriterRejected ==
    [][\A r \in inflight :
          (Served(r) /\ r.op = "updateQuantity" /\ serverCart' # serverCart
             /\ cart[r.tab] # NULL)
          => cart[r.tab].items = serverCart.items
      ]_vars

\* ---- C26 ----

\* The store action of request r ends in this step.
Returned(r) == r \in inflight /\ \A a \in inflight' : a.id # r.id

\* The cart c of a store shows the lines of the server cart sc; a store that
\* holds no cart shows an empty one.
Agrees(c, sc) == IF c = NULL THEN sc.items = <<>> ELSE c.items = sc.items

\* C26: when a store action ends successfully and no other store action of
\* the tab is running, the cart of the store shows the cart of the service.
C26_StoreConvergesToServer ==
    [][\A r \in inflight :
          (Returned(r) /\ r.answer.status = "ok" /\ inflight' = {})
          => Agrees(cart'[r.tab], serverCart')
      ]_vars

\* ---- C28 ----
\* C28: a store action that fails leaves the cart of the store as it was;
\* fetchCart then sets isLoading to false and throws nothing, every other
\* action throws the error it got.
C28_FailedActionKeepsCart ==
    [][\A r \in inflight :
          (Returned(r) /\ r.answer.status # "ok")
          => /\ cart' = cart
             /\ r.op = "fetchCart"
                  => ~isLoading'[r.tab] /\ thrown'[r.tab] = "none"
             /\ r.op # "fetchCart" => thrown'[r.tab] # "none"
             /\ r.answer.status = "error" /\ r.op # "fetchCart"
                  => thrown'[r.tab] = r.answer.error
      ]_vars

\* addToCart has just thrown InvalidQuantity in a tab whose store holds the
\* cart it fetched before.
C28_Witness ==
    /\ inflight = {}
    /\ thrown["t1"] = "InvalidQuantity"
    /\ cart["t1"] # NULL
    /\ cart["t1"].items = <<Line("P1", 1, 10)>>
    /\ ~isLoading["t1"]

\* ---- C25 ----

\* The products of the cart sc that cannot be bought as the cart has them.
NotBuyable(sc) ==
    {p \in CartProducts :
        \E i \in 1..Len(sc.items) :
            /\ sc.items[i].product_id = p
            /\ (catalog[p].stock < sc.items[i].quantity \/ ~catalog[p].is_active)}

\* C25: the preparer lists as unavailable exactly the products of the cart
\* whose stock is below the line's quantity or which are inactive, whatever
\* the prices are, and reports the cart available iff it lists none; a call
\* of prepareCheckout returns that and leaves the cart as it is.
C25_PrepareListsUnavailable ==
    /\ [](/\ PrepareCheckout(serverCart).unavailable_items = NotBuyable(serverCart)
          /\ PrepareCheckout(serverCart).available_for_checkout
                <=> NotBuyable(serverCart) = {})
    /\ [][\A t \in Tabs : prepared'[t] # prepared[t] =>
              /\ serverCart' = serverCart
              /\ prepared'[t].items = serverCart.items
              /\ prepared'[t].unavailable_items = NotBuyable(serverCart)
              /\ prepared'[t].available_for_checkout
                    <=> NotBuyable(serverCart) = {}
         ]_vars

\* The preparer has reported a cart with a line available whose snapshot is
\* not the catalog's price.
C25_Witness ==
    /\ prepared["t1"] # NULL
    /\ prepared["t1"] = PrepareCheckout(serverCart)
    /\ prepared["t1"].available_for_checkout
    /\ \E i \in 1..Len(serverCart.items) :
          catalog[serverCart.items[i].product_id].price
              # serverCart.items[i].price

\* ---- C27 ----
\* C27: the step of a checkout page goes from shipping to payment and from
\* payment to success, or back to shipping while nothing is processing; the
\* submit of the shipping form calls no service; and the step becomes
\* success only at the end of a submission that called createPaymentIntent,
\* confirmPayment, createOrder and clearCart, with the order of its payment
\* recorded.
C27_SuccessOnlyWithOrder ==
    [][\A t \in Tabs : step'[t] # step[t] =>
          /\ \/ step[t] = "shipping" /\ step'[t] = "payment"
             \/ step[t] = "payment" /\ step'[t] = "success"
             \/ step'[t] = "shipping" /\ ~processing[t]
          /\ step'[t] = "payment"
                => /\ UNCHANGED <<serverCart, intents, orders, calls, pc>>
                   /\ pc[t] = "idle"
          /\ step'[t] = "success"
                => /\ \A c \in {"createPaymentIntent", "confirmPayment",
                                 "createOrder", "clearCart"} : Called(t, c)
                   /\ HasOrder(intent[t])
      ]_vars

\* ---- C29 ----
\* C29: whenever no auth action of a tab is running, isAuthenticated is true
\* iff sessionStorage holds an access_token; and when logout ends, the user
\* is null, isAuthenticated is false and the three session keys are gone.
C29_AuthStoreAgreesWithSession ==
    /\ [](\A t \in Tabs :
             authCalls[t] = {} =>
                 (isAuthenticated[t] <=> "access_token" \in session[t]))
    /\ [][\A t \in Tabs :
             ((\E c \in authCalls[t] : c.op = "logout")
                /\ \A c \in authCalls'[t] : c.op # "logout")
             => /\ user'[t] = NULL
                /\ ~isAuthenticated'[t]
                /\ session'[t] \cap SessionKeys = {}
         ]_vars

\* ---- C30 ----

\* The stock the product page of tab t shows, 0 while it shows no product.
StockShown(t) == IF product[t] = NULL THEN 0 ELSE product[t].stock

\* C30: the quantity selected on a product page is at least 1 and at most
\* the stock shown, or 1 if that is less; a step that changes the product
\* shown sets the quantity to 1; and what a step adds to the cart is the
\* quantity selected, at least 1 and at most the stock shown.
C30_QuantityWithinStock ==
    /\ [](\A t \in Tabs :
             /\ quantity[t] >= 1
             /\ quantity[t] <= IF StockShown(t) > 1 THEN StockShown(t) ELSE 1)
    /\ [][\A t \in Tabs : product'[t] # product[t] => quantity'[t] = 1]_vars
    /\ [][SumQty(serverCart'.items) > SumQty(serverCart.items) =>
             \E t \in Tabs :
                 /\ SumQty(serverCart'.items) - SumQty(serverCart.items)
                       = quantity[t]
                 /\ quantity[t] >= 1
                 /\ quantity[t] <= StockShown(t)
         ]_vars

\* The page shows the product with the largest stock, that many are selected
\* and have been added to the cart.
C30_Witness ==
    /\ product["t1"] # NULL
    /\ product["t1"].stock = MaxShownStock
    /\ quantity["t1"] = MaxShownStock
    /\ serverCart.items = <<Line("P1", MaxShownStock, 10)>>
    /\ cart["t1"] = CartResponse(serverCart)

====
